---- MODULE Spec2Model ----
(***************************************************************************)
(* Model of src/src/components/IssueReporter.js: the issue form (title,    *)
(* sender email, dynamic step list), its validation on submit, the         *)
(* recipient modal, and the asynchronous persist-then-notify submission.   *)
(*                                                                         *)
(* Strings are sequences of one-character strings, so that trim(), length  *)
(* and the email pattern are computed rather than assumed.                 *)
(***************************************************************************)
EXTENDS Integers, Sequences, FiniteSets

VARIABLES
    issueTitle,       \* form value 'issueTitle'
    senderEmail,      \* form value 'senderEmail'
    steps,            \* form value 'steps': sequence of [value |-> string]
    errors,           \* formState.errors: field name -> error record or NoError
    isSubmitted,      \* formState.isSubmitted (switches on re-validation on change)
    showEmailModal,   \* useState(false)
    recipientEmail,   \* useState('')
    pendingFormData,  \* useState(null)
    stagedAt,         \* how many runs had started when the data was staged (history)
    calls,            \* every started handleEmailModalSubmit run, in start order
    store,            \* documents of the 'issues' collection, in write order
    outbox,           \* template parameters of every POST the relay accepted
    ev,               \* the handler that ran last (history)
    timers,           \* pending setTimeout callbacks of addStep, oldest first:
                      \* the fields.length each one's closure holds
    fmtData,          \* argument of the formatEmailBody call under study
    fmtBody           \* [ran, body]: whether it has run, and its result

vars == <<issueTitle, senderEmail, steps, errors, isSubmitted, showEmailModal,
          recipientEmail, pendingFormData, stagedAt, calls, store, outbox, ev,
          timers, fmtData, fmtBody>>

formVars == <<issueTitle, senderEmail, steps>>
modalVars == <<showEmailModal, recipientEmail, pendingFormData>>
fmtVars == <<fmtData, fmtBody>>

----------------------------------------------------------------------------
(* Bounds of the model. *)

MaxSteps == 2      \* longest step list the form is grown to
MaxCalls == 2      \* recipient confirmations that start a submission
MaxTimers == 1     \* focus callbacks pending at once
MaxFmtSteps == 4   \* longest step list handed to formatEmailBody

----------------------------------------------------------------------------
(* Characters and strings. *)

Letters ==
    {"a","b","c","d","e","f","g","h","i","j","k","l","m",
     "n","o","p","q","r","s","t","u","v","w","x","y","z",
     "A","B","C","D","E","F","G","H","I","J","K","L","M",
     "N","O","P","Q","R","S","T","U","V","W","X","Y","Z"}

Digits == {"0","1","2","3","4","5","6","7","8","9"}

DigitChar == <<"0","1","2","3","4","5","6","7","8","9">>

\* what trim() strips: the WhiteSpace and LineTerminator code points. Those
\* without an escape are written U+XXXX, one string standing for the one
\* character.
WhiteSpace ==
    { " ", "\t", "\n", "\f", "\r",
      "U+000B", "U+00A0", "U+FEFF", "U+2028", "U+2029",
      "U+1680", "U+2000", "U+2001", "U+2002", "U+2003", "U+2004", "U+2005",
      "U+2006", "U+2007", "U+2008", "U+2009", "U+200A", "U+202F", "U+205F",
      "U+3000" }

\* null (pendingFormData), an absent entry of formState.errors
Null == [null |-> TRUE]
NoError == [type |-> "none", message |-> ""]

\* Number -> decimal text, as a template literal prints it.
RECURSIVE Dec(_)
Dec(n) ==
    IF n < 10 THEN <<DigitChar[n + 1]>>
    ELSE Dec(n \div 10) \o <<DigitChar[(n % 10) + 1]>>

\* String.prototype.trim
RECURSIVE trimStart(_)
trimStart(s) ==
    IF s # <<>> /\ Head(s) \in WhiteSpace THEN trimStart(Tail(s)) ELSE s

RECURSIVE trimEnd(_)
trimEnd(s) ==
    IF s # <<>> /\ s[Len(s)] \in WhiteSpace
    THEN trimEnd(SubSeq(s, 1, Len(s) - 1))
    ELSE s

trim(s) == trimEnd(trimStart(s))

\* JavaScript truthiness of a string
Truthy(s) == s # <<>>

\* Array.prototype.join and string concatenation of a list of pieces
RECURSIVE Concat(_)
Concat(ss) == IF ss = <<>> THEN <<>> ELSE Head(ss) \o Concat(Tail(ss))

RECURSIVE Join(_, _)
Join(ss, sep) ==
    IF ss = <<>> THEN <<>>
    ELSE IF Len(ss) = 1 THEN ss[1]
    ELSE ss[1] \o sep \o Join(Tail(ss), sep)

----------------------------------------------------------------------------
(* Field rules given to register(). *)

TitleMinLength == 3

TitleRequiredMsg == "Issue title is required"
TitleMinLengthMsg == "Issue title must be at least 3 characters"
EmailRequiredMsg == "Email is required"
EmailPatternMsg == "Invalid email address"
StepsMsg == "Please provide at least one step."
RootMsg == "Failed to submit issue. Please try again."

\* Character classes of /^[A-Z0-9._%+-]+@[A-Z0-9.-]+\.[A-Z]{2,}$/i
LocalClass == Letters \cup Digits \cup {".", "_", "%", "+", "-"}
DomainClass == Letters \cup Digits \cup {".", "-"}
TldClass == Letters
TldMin == 2

AllIn(s, lo, hi, class) == \A k \in lo..hi : s[k] \in class

\* the pattern with {1,} for the last label
EmailPatternShortTld(s) ==
    \E at \in 1..Len(s) : \E dot \in 1..Len(s) :
        /\ s[at] = "@"
        /\ s[dot] = "."
        /\ at >= 2
        /\ AllIn(s, 1, at - 1, LocalClass)
        /\ dot >= at + 2
        /\ AllIn(s, at + 1, dot - 1, DomainClass)
        /\ Len(s) - dot >= 1
        /\ AllIn(s, dot + 1, Len(s), TldClass)

\* The pattern matches s: some split local '@' domain '.' tld fits the
\* three quantified classes, anchored at both ends.
EmailPattern(s) ==
    \E at \in 1..Len(s) : \E dot \in 1..Len(s) :
        /\ s[at] = "@"
        /\ s[dot] = "."
        /\ at >= 2
        /\ AllIn(s, 1, at - 1, LocalClass)
        /\ dot >= at + 2
        /\ AllIn(s, at + 1, dot - 1, DomainClass)
        /\ Len(s) - dot >= TldMin
        /\ AllIn(s, dot + 1, Len(s), TldClass)

Err(type, message) == [type |-> type, message |-> message]

\* minLength compared one short
validateTitleOneShort(v) ==
    IF v = <<>> THEN Err("required", TitleRequiredMsg)
    ELSE IF Len(v) < TitleMinLength - 1
    THEN Err("minLength", TitleMinLengthMsg)
    ELSE NoError

\* validateField for 'issueTitle': required first, then minLength.
validateTitle(v) ==
    IF v = <<>> THEN Err("required", TitleRequiredMsg)
    ELSE IF Len(v) < TitleMinLength THEN Err("minLength", TitleMinLengthMsg)
    ELSE NoError

\* validateField for 'senderEmail': required first, then pattern.
validateEmail(v) ==
    IF v = <<>> THEN Err("required", EmailRequiredMsg)
    ELSE IF ~EmailPattern(v) THEN Err("pattern", EmailPatternMsg)
    ELSE NoError

----------------------------------------------------------------------------
(* Values the user types in the full interleaving. Title, sender and       *)
(* recipient start empty; the wider ranges of typed values belong to the   *)
(* specifications of the single handlers below.                            *)

TitleInputs == { <<"b","u","g">> }

EmailInputs == { <<"a","@","b",".","c","o">> }

StepInputs == { <<>>, <<" ","a"," ">> }

RecipientInputs == { <<" ">>, <<"r","@","x",".","i","o">> }

----------------------------------------------------------------------------
(* useForm: default values and formState.errors. *)

DefaultTitle == <<>>
DefaultEmail == <<>>
DefaultSteps == << [value |-> <<>>] >>

ErrorKeys == {"issueTitle", "senderEmail", "steps", "root"}

NoErrors == [k \in ErrorKeys |-> NoError]

isEmptyObject(e) == \A k \in ErrorKeys : e[k] = NoError

\* setError(name, {type: 'manual', message})
setError(e, name, message) == [e EXCEPT ![name] = Err("manual", message)]

\* formState.isSubmitting is true only while handleSubmit awaits validation
\* and onSubmit, which settle without yielding to another event; the modal's
\* handleEmailModalSubmit is not wrapped by handleSubmit, so every handler
\* below observes false.
isSubmitting == FALSE

----------------------------------------------------------------------------
(* formatEmailBody and sendEmail's payload. *)

IsNonEmptyItem(item) == Truthy(item.step)

\* numbering by the entry's position in the input instead
StepLineOriginalIndex(item, index) ==
    Dec(item.originalIndex) \o <<".", " ">> \o item.step \o <<"\n">>

\* `${index + 1}. ${item.step}\n`, index being the 0-based forEach index
StepLine(item, index) ==
    Dec(index + 1) \o <<".", " ">> \o item.step \o <<"\n">>

nonEmptyStepsOf(data) ==
    SelectSeq([i \in 1..Len(data.steps) |->
                  [step |-> trim(data.steps[i].value), originalIndex |-> i]],
              IsNonEmptyItem)

BodyHeader(title) ==
    <<"I","s","s","u","e",":"," ">> \o title \o <<"\n","\n">>
        \o <<"S","t","e","p","s",":","\n">>

formatEmailBody(data) ==
    LET nonEmptySteps == nonEmptyStepsOf(data)
    IN  BodyHeader(data.issueTitle)
            \o Concat([k \in 1..Len(nonEmptySteps) |->
                           StepLine(nonEmptySteps[k], k - 1)])

SubjectPrefix == <<"I","s","s","u","e"," ","R","e","p","o","r","t",":"," ">>

\* templateParams built by sendEmail; the timestamp is the clock's reading
\* at the call, kept as a token
templateParamsOf(issueData, sender, recipient) ==
    [ to_email    |-> recipient,
      from_email  |-> sender,
      from_name   |-> sender,
      subject     |-> SubjectPrefix \o issueData.title,
      message     |-> formatEmailBody(
                          [issueTitle |-> issueData.title,
                           steps |-> [i \in 1..Len(issueData.steps) |->
                                         [value |-> issueData.steps[i]]]]),
      issue_title |-> issueData.title,
      steps_list  |-> Join([i \in 1..Len(issueData.steps) |->
                               Dec(i) \o <<".", " ">> \o issueData.steps[i]],
                           <<"\n">>),
      timestamp   |-> "toLocaleString" ]

HasText(step) == Truthy(trim(step.value))

\* an issueData whose steps are trimmed but not filtered
issueDataOfUnfiltered(formData, recipient) ==
    [ title          |-> formData.issueTitle,
      senderEmail    |-> formData.senderEmail,
      steps          |-> [i \in 1..Len(formData.steps)
                             |-> trim(formData.steps[i].value)],
      recipientEmail |-> recipient,
      createdAt      |-> "serverTimestamp",
      status         |-> "open" ]

\* issueData of handleEmailModalSubmit
issueDataOf(formData, recipient) ==
    LET kept == SelectSeq(formData.steps, HasText)
    IN  [ title          |-> formData.issueTitle,
          senderEmail    |-> formData.senderEmail,
          steps          |-> [i \in 1..Len(kept) |-> trim(kept[i].value)],
          recipientEmail |-> recipient,
          createdAt      |-> "serverTimestamp",
          status         |-> "open" ]

----------------------------------------------------------------------------
(* Initial state: the component as first rendered. *)

NoFmtData == [issueTitle |-> <<>>, steps |-> <<>>]
NoFmtBody == [ran |-> FALSE, body |-> <<>>]

InitComponent ==
    /\ issueTitle = DefaultTitle
    /\ senderEmail = DefaultEmail
    /\ steps = DefaultSteps
    /\ errors = NoErrors
    /\ isSubmitted = FALSE
    /\ showEmailModal = FALSE
    /\ recipientEmail = <<>>
    /\ pendingFormData = Null
    /\ stagedAt = 0
    /\ calls = <<>>
    /\ store = <<>>
    /\ outbox = <<>>
    /\ ev = "init"
    /\ timers = <<>>

Init ==
    /\ InitComponent
    /\ fmtData = NoFmtData
    /\ fmtBody = NoFmtBody

----------------------------------------------------------------------------
(* Editing the form. Fields re-validate on change once the form has been   *)
(* submitted (reValidateMode 'onChange'); step inputs carry no rules.      *)

SetTitle(t) ==
    /\ issueTitle' = t
    /\ errors' = IF isSubmitted
                 THEN [errors EXCEPT !["issueTitle"] = validateTitle(t)]
                 ELSE errors
    /\ ev' = "edit"
    /\ UNCHANGED <<senderEmail, steps, isSubmitted, modalVars, stagedAt, calls,
                   store, outbox, timers, fmtVars>>

SetSender(e) ==
    /\ senderEmail' = e
    /\ errors' = IF isSubmitted
                 THEN [errors EXCEPT !["senderEmail"] = validateEmail(e)]
                 ELSE errors
    /\ ev' = "edit"
    /\ UNCHANGED <<issueTitle, steps, isSubmitted, modalVars, stagedAt, calls,
                   store, outbox, timers, fmtVars>>

SetStep(i, s) ==
    /\ i \in 1..Len(steps)
    /\ steps' = [steps EXCEPT ![i] = [value |-> s]]
    /\ ev' = "edit"
    /\ UNCHANGED <<issueTitle, senderEmail, errors, isSubmitted, modalVars,
                   stagedAt, calls, store, outbox, timers, fmtVars>>

----------------------------------------------------------------------------
(* Submitting the form: handleSubmit(onSubmit). *)

\* some() without the trim: a whitespace-only step counts as content
hasValidStepsNoTrim(data) ==
    \E i \in 1..Len(data.steps) : Truthy(data.steps[i].value)

hasValidSteps(data) == \E i \in 1..Len(data.steps) : HasText(data.steps[i])

\* onSubmit runs with formState.errors already emptied by handleSubmit.
onSubmit(data) ==
    IF ~hasValidSteps(data)
    THEN /\ errors' = setError(NoErrors, "steps", StepsMsg)
         /\ ev' = "submitNoSteps"
         /\ UNCHANGED <<modalVars, stagedAt>>
    ELSE /\ errors' = NoErrors
         /\ pendingFormData' = data
         /\ showEmailModal' = TRUE
         /\ stagedAt' = Len(calls)
         /\ ev' = "submitStaged"
         /\ UNCHANGED recipientEmail

\* handleSubmit validates every registered field, drops the 'root' error, and
\* calls onSubmit only if formState.errors is then empty. An error set by
\* setError under a name no registered field owns ('steps') is not touched by
\* validation, so it keeps blocking until clearErrors or reset runs. The
\* submit event is taken as delivered: the browser's own check of the
\* type="email" input is not part of the component.
handleSubmit ==
    LET data == [issueTitle |-> issueTitle, senderEmail |-> senderEmail,
                 steps |-> steps]
        validated == [errors EXCEPT !["issueTitle"] = validateTitle(issueTitle),
                                    !["senderEmail"] = validateEmail(senderEmail),
                                    !["root"] = NoError]
    IN  /\ isSubmitted' = TRUE
        /\ UNCHANGED <<formVars, calls, store, outbox, timers, fmtVars>>
        /\ IF isEmptyObject(validated)
           THEN onSubmit(data)
           ELSE /\ errors' = validated
                /\ ev' = "submitInvalid"
                /\ UNCHANGED <<modalVars, stagedAt>>

----------------------------------------------------------------------------
(* Growing the step list. *)

\* a callback that reads the length of the list as it is after the append
newIndexAfterAppend(fields) == Len(fields) + 1

\* newIndex as the delayed callback computes it: fields.length of the
\* render whose addStep scheduled it, which is the 0-based index the
\* appended entry takes. Every handler is followed by a render before the
\* next event is delivered, so that render's list is the list appended to.
newIndexOf(fields) == Len(fields)

\* addStep, from a '+ Step' button: append, then schedule the focus callback
addStep ==
    /\ steps' = Append(steps, [value |-> <<>>])
    /\ timers' = Append(timers, newIndexOf(steps))
    /\ ev' = "addStep"
    /\ UNCHANGED <<issueTitle, senderEmail, errors, isSubmitted, modalVars,
                   stagedAt, calls, store, outbox, fmtVars>>

\* a handler that leaves Enter to its default action
handleKeyPressDefault(key, shiftKey) == key = "Enter" /\ handleSubmit

\* onKeyDown of a step input. Enter without Shift is consumed by the handler
\* (preventDefault, addStep). With Shift the handler does nothing and the
\* key keeps its default action, the implicit submission of the form.
handleKeyPress(key, shiftKey) ==
    IF key = "Enter" /\ ~shiftKey
    THEN addStep
    ELSE key = "Enter" /\ handleSubmit

\* The callback addStep scheduled, 100 ms later. It calls focus() on the
\* element stepRefs holds at newIndex, if any: that moves DOM focus, which
\* is not part of this state, and leaves the component's state as it is.
focusNewStep ==
    /\ timers # <<>>
    /\ timers' = Tail(timers)
    /\ ev' = "focusTimer"
    /\ UNCHANGED <<formVars, errors, isSubmitted, modalVars, stagedAt, calls,
                   store, outbox, fmtVars>>

----------------------------------------------------------------------------
(* The recipient modal. *)

SetRecipient(r) ==
    /\ showEmailModal
    /\ recipientEmail' = r
    /\ ev' = "edit"
    /\ UNCHANGED <<formVars, errors, isSubmitted, showEmailModal,
                   pendingFormData, stagedAt, calls, store, outbox, timers,
                   fmtVars>>

\* a Cancel that also resets the form
ModalCancelReset ==
    /\ showEmailModal
    /\ showEmailModal' = FALSE
    /\ recipientEmail' = <<>>
    /\ pendingFormData' = Null
    /\ issueTitle' = DefaultTitle
    /\ senderEmail' = DefaultEmail
    /\ steps' = DefaultSteps
    /\ ev' = "cancel"
    /\ UNCHANGED <<errors, isSubmitted, stagedAt, calls, store, outbox, timers,
                   fmtVars>>

\* a Cancel that also abandons the runs whose calls are pending
ModalCancelAbortsRuns ==
    /\ showEmailModal
    /\ showEmailModal' = FALSE
    /\ recipientEmail' = <<>>
    /\ pendingFormData' = Null
    /\ calls' = [i \in 1..Len(calls) |->
                   [calls[i] EXCEPT
                      !.addDoc = IF @ = "pending" THEN "aborted" ELSE @,
                      !.fetch  = IF @ = "pending" THEN "aborted" ELSE @]]
    /\ ev' = "cancel"
    /\ UNCHANGED <<formVars, errors, isSubmitted, stagedAt, store, outbox,
                   timers, fmtVars>>

\* a Cancel that closes the modal but keeps the staged data
ModalCancelKeepsData ==
    /\ showEmailModal
    /\ showEmailModal' = FALSE
    /\ recipientEmail' = <<>>
    /\ ev' = "cancel"
    /\ UNCHANGED <<formVars, errors, isSubmitted, pendingFormData, stagedAt,
                   calls, store, outbox, timers, fmtVars>>

\* Cancel button onClick
ModalCancel ==
    /\ showEmailModal
    /\ showEmailModal' = FALSE
    /\ recipientEmail' = <<>>
    /\ pendingFormData' = Null
    /\ ev' = "cancel"
    /\ UNCHANGED <<formVars, errors, isSubmitted, stagedAt, calls, store, outbox,
                   timers, fmtVars>>

\* sendEmail called without awaiting addDoc
NewCallNoAwait(formData, recipient) ==
    [ stage     |-> stagedAt,
      issueData |-> issueDataOf(formData, recipient),
      sender    |-> formData.senderEmail,
      recipient |-> recipient,
      addDoc    |-> "pending",
      fetch     |-> "pending" ]

\* A run of handleEmailModalSubmit, as started: what its closure captured
\* and how far its two awaited calls have got.
NewCall(formData, recipient) ==
    [ stage     |-> stagedAt,
      issueData |-> issueDataOf(formData, recipient),
      sender    |-> formData.senderEmail,
      recipient |-> recipient,
      addDoc    |-> "pending",
      fetch     |-> "none" ]

\* a confirmation whose early return tests the recipient without trim()
handleEmailModalSubmitNoTrim ==
    /\ showEmailModal
    /\ ~isSubmitting
    /\ UNCHANGED <<formVars, isSubmitted, modalVars, stagedAt, store, outbox,
                   timers, fmtVars>>
    /\ IF ~Truthy(recipientEmail)
       THEN /\ ev' = "confirmNoop"
            /\ UNCHANGED <<errors, calls>>
       ELSE /\ pendingFormData # Null
            /\ Len(calls) < MaxCalls
            /\ calls' = Append(calls, NewCall(pendingFormData, recipientEmail))
            /\ ev' = "confirm"
            /\ UNCHANGED errors

\* handleEmailModalSubmit up to its first await: the early return, then
\* issueData and the addDoc call. Reading a field of null throws inside the
\* try block and lands in the catch.
handleEmailModalSubmit ==
    /\ showEmailModal
    /\ ~isSubmitting
    /\ UNCHANGED <<formVars, isSubmitted, modalVars, stagedAt, store, outbox,
                   timers, fmtVars>>
    /\ IF ~Truthy(trim(recipientEmail))
       THEN /\ ev' = "confirmNoop"
            /\ UNCHANGED <<errors, calls>>
       ELSE IF pendingFormData = Null
       THEN /\ errors' = setError(errors, "root", RootMsg)
            /\ ev' = "confirmThrow"
            /\ UNCHANGED calls
       ELSE /\ Len(calls) < MaxCalls
            /\ calls' = Append(calls, NewCall(pendingFormData, recipientEmail))
            /\ ev' = "confirm"
            /\ UNCHANGED errors

----------------------------------------------------------------------------
(* The awaited calls settle. *)

\* the write succeeded: the document is in the collection, and sendEmail
\* posts the notification
AfterAddDoc(c) == [c EXCEPT !.addDoc = "ok", !.fetch = "pending"]

\* a write that replaces the document of an earlier run of the same staged
\* submission instead of adding one
AddDocOkUpsert(i) ==
    LET doc == [id |-> Len(store) + 1, call |-> i, data |-> calls[i].issueData]
        same == {k \in 1..Len(store) :
                    calls[store[k].call].stage = calls[i].stage}
    IN  /\ i \in 1..Len(calls)
        /\ calls[i].addDoc = "pending"
        /\ store' = IF same = {} THEN Append(store, doc)
                    ELSE [k \in 1..Len(store) |->
                            IF k \in same THEN doc ELSE store[k]]
        /\ calls' = [calls EXCEPT ![i] = AfterAddDoc(calls[i])]
        /\ ev' = "addDocOk"
        /\ UNCHANGED <<formVars, errors, isSubmitted, modalVars, stagedAt,
                       outbox, timers, fmtVars>>

AddDocOk(i) ==
    /\ i \in 1..Len(calls)
    /\ calls[i].addDoc = "pending"
    /\ store' = Append(store, [id |-> Len(store) + 1, call |-> i,
                               data |-> calls[i].issueData])
    /\ calls' = [calls EXCEPT ![i] = AfterAddDoc(calls[i])]
    /\ ev' = "addDocOk"
    /\ UNCHANGED <<formVars, errors, isSubmitted, modalVars, stagedAt, outbox,
                   timers, fmtVars>>

\* a catch block that retracts the document the failed run wrote
catchErrorRetract(i, how) ==
    LET NotOfRun(d) == d.call # i
    IN  /\ errors' = setError(errors, "root", RootMsg)
        /\ store' = SelectSeq(store, NotOfRun)
        /\ ev' = how
        /\ UNCHANGED <<formVars, isSubmitted, modalVars, stagedAt, outbox, timers,
                       fmtVars>>

\* a catch block that also resets the form
catchErrorReset(i, how) ==
    /\ errors' = setError(NoErrors, "root", RootMsg)
    /\ issueTitle' = DefaultTitle
    /\ senderEmail' = DefaultEmail
    /\ steps' = DefaultSteps
    /\ ev' = how
    /\ UNCHANGED <<isSubmitted, modalVars, stagedAt, store, outbox, timers, fmtVars>>

\* the catch block of handleEmailModalSubmit
catchError(i, how) ==
    /\ errors' = setError(errors, "root", RootMsg)
    /\ ev' = how
    /\ UNCHANGED <<formVars, isSubmitted, modalVars, stagedAt, store, outbox,
                   timers, fmtVars>>

\* a failed write after which sendEmail is called all the same
AddDocFailNotifies(i) ==
    /\ i \in 1..Len(calls)
    /\ calls[i].addDoc = "pending"
    /\ calls' = [calls EXCEPT ![i].addDoc = "failed", ![i].fetch = "pending"]
    /\ catchError(i, "addDocFail")

AddDocFail(i) ==
    /\ i \in 1..Len(calls)
    /\ calls[i].addDoc = "pending"
    /\ calls' = [calls EXCEPT ![i].addDoc = "failed"]
    /\ catchError(i, "addDocFail")

\* a failed notification that is posted again by the handler itself
FetchFailRetries(i, how) ==
    /\ i \in 1..Len(calls)
    /\ calls[i].fetch = "pending"
    /\ calls' = calls
    /\ catchError(i, how)

\* fetch rejected, or answered with a status outside 2xx (sendEmail rethrows)
FetchFail(i, how) ==
    /\ i \in 1..Len(calls)
    /\ calls[i].fetch = "pending"
    /\ calls' = [calls EXCEPT ![i].fetch = "failed"]
    /\ catchError(i, how)

\* a reset to a form whose step list is empty
afterSendEmptyList ==
    /\ issueTitle' = DefaultTitle
    /\ senderEmail' = DefaultEmail
    /\ steps' = <<>>
    /\ errors' = NoErrors
    /\ isSubmitted' = FALSE
    /\ showEmailModal' = FALSE
    /\ recipientEmail' = <<>>
    /\ pendingFormData' = Null

\* the success path without setRecipientEmail('')
afterSendKeepRecipient ==
    /\ issueTitle' = DefaultTitle
    /\ senderEmail' = DefaultEmail
    /\ steps' = DefaultSteps
    /\ errors' = NoErrors
    /\ isSubmitted' = FALSE
    /\ showEmailModal' = FALSE
    /\ recipientEmail' = recipientEmail
    /\ pendingFormData' = Null

\* reset() and the three state setters after both awaits
afterSend ==
    /\ issueTitle' = DefaultTitle
    /\ senderEmail' = DefaultEmail
    /\ steps' = DefaultSteps
    /\ errors' = NoErrors
    /\ isSubmitted' = FALSE
    /\ showEmailModal' = FALSE
    /\ recipientEmail' = <<>>
    /\ pendingFormData' = Null

\* fetch resolved with ok: the relay has accepted the POST, and sendEmail
\* goes on to await response.text()
FetchOk(i) ==
    /\ i \in 1..Len(calls)
    /\ calls[i].fetch = "pending"
    /\ calls' = [calls EXCEPT ![i].fetch = "reading"]
    /\ outbox' = Append(outbox,
                        [call |-> i,
                         params |-> templateParamsOf(calls[i].issueData,
                                                     calls[i].sender,
                                                     calls[i].recipient)])
    /\ ev' = "fetchOk"
    /\ UNCHANGED <<formVars, errors, isSubmitted, modalVars, stagedAt, store,
                   timers, fmtVars>>

\* response.text() resolved: sendEmail returns and handleEmailModalSubmit
\* runs its success path
TextOk(i) ==
    /\ i \in 1..Len(calls)
    /\ calls[i].fetch = "reading"
    /\ calls' = [calls EXCEPT ![i].fetch = "ok"]
    /\ afterSend
    /\ ev' = "textOk"
    /\ UNCHANGED <<stagedAt, store, outbox, timers, fmtVars>>

\* response.text() rejected: sendEmail rethrows, after the POST went through
TextFail(i) ==
    /\ i \in 1..Len(calls)
    /\ calls[i].fetch = "reading"
    /\ calls' = [calls EXCEPT ![i].fetch = "failed"]
    /\ catchError(i, "textRejected")

----------------------------------------------------------------------------
(* The component under every interleaving of user events and settlements. *)

FetchFailures == {"fetchRejected", "fetchNon2xx"}

\* the bounds on the step list and on the callbacks pending
CanGrow == Len(steps) < MaxSteps /\ Len(timers) < MaxTimers

Next ==
    \/ \E t \in TitleInputs : SetTitle(t)
    \/ \E e \in EmailInputs : SetSender(e)
    \/ \E i \in 1..MaxSteps : \E s \in StepInputs : SetStep(i, s)
    \/ CanGrow /\ addStep
    \/ \E shiftKey \in BOOLEAN : CanGrow /\ handleKeyPress("Enter", shiftKey)
    \/ focusNewStep
    \/ handleSubmit
    \/ \E r \in RecipientInputs : SetRecipient(r)
    \/ ModalCancel
    \/ handleEmailModalSubmit
    \/ \E i \in 1..MaxCalls : AddDocOk(i)
    \/ \E i \in 1..MaxCalls : AddDocFail(i)
    \/ \E i \in 1..MaxCalls : FetchOk(i)
    \/ \E i \in 1..MaxCalls : TextOk(i)
    \/ \E i \in 1..MaxCalls : TextFail(i)
    \/ \E i \in 1..MaxCalls : \E how \in FetchFailures : FetchFail(i, how)

Spec == Init /\ [][Next]_vars

----------------------------------------------------------------------------
(* The submit handler alone, from a form the user has filled in with any   *)
(* of a wider range of values.                                             *)

WideTitles ==
    { <<>>, <<"a">>, <<"a","b">>, <<" "," ">>, <<"a","b","c">>,
      <<" "," "," ">>, <<"b","u","g","!">> }

WideEmails ==
    { <<>>,
      <<"a","@","b",".","c","o">>,
      <<"A","@","B",".","C","O">>,
      <<"a","_","%","+","-",".","1","@","b","-","1",".","c",".","d","e">>,
      <<"a","@","b">>,
      <<"a","@","b",".","c">>,
      <<"a","@","b",".","c","0">>,
      <<"@","b",".","c","o">>,
      <<"a","@",".","c","o">>,
      <<"a","b",".","c","o">>,
      <<"a","@","@","b",".","c","o">>,
      <<"a","@","b","_","c",".","d","e">>,
      <<"a"," ","b","@","c",".","d","e">>,
      <<"a","@","b",".","c","o"," ">>,
      <<" ">> }

WideSteps == { <<>>, <<" ">>, <<"\t","\r">>, <<" ","a"," ">>, <<"b">> }

StepLists(texts, n) ==
    UNION { [1..k -> {[value |-> s] : s \in texts}] : k \in 1..n }

InitFilled ==
    /\ issueTitle \in WideTitles
    /\ senderEmail \in WideEmails
    /\ steps \in StepLists(WideSteps, MaxSteps)
    /\ errors = NoErrors
    /\ isSubmitted = FALSE
    /\ showEmailModal = FALSE
    /\ recipientEmail = <<>>
    /\ pendingFormData = Null
    /\ stagedAt = 0
    /\ calls = <<>>
    /\ store = <<>>
    /\ outbox = <<>>
    /\ ev = "init"
    /\ timers = <<>>
    /\ fmtData = NoFmtData
    /\ fmtBody = NoFmtBody

NextSubmit ==
    \/ handleSubmit
    \/ ModalCancel

SpecSubmit == InitFilled /\ [][NextSubmit]_vars

----------------------------------------------------------------------------
(* The recipient modal and the submission it starts, from a form whose     *)
(* title and sender pass validation and whose steps are any of the wider   *)
(* range: submit, type a recipient, cancel, confirm, and the settling of   *)
(* the awaited calls.                                                      *)

ReadyTitles == { <<"b","u","g">>, <<" "," "," ">> }

ReadySenders == { <<"a","@","b",".","c","o">> }

WideRecipients ==
    { <<>>, <<" ">>, <<"\r","\t">>, <<"r","@","x",".","i","o">>,
      <<" ","r","@","x",".","i","o">> }

InitReady ==
    /\ issueTitle \in ReadyTitles
    /\ senderEmail \in ReadySenders
    /\ steps \in StepLists(WideSteps, MaxSteps)
    /\ errors = NoErrors
    /\ isSubmitted = FALSE
    /\ showEmailModal = FALSE
    /\ recipientEmail = <<>>
    /\ pendingFormData = Null
    /\ stagedAt = 0
    /\ calls = <<>>
    /\ store = <<>>
    /\ outbox = <<>>
    /\ ev = "init"
    /\ timers = <<>>
    /\ fmtData = NoFmtData
    /\ fmtBody = NoFmtBody

NextModal ==
    \/ handleSubmit
    \/ \E r \in WideRecipients : SetRecipient(r)
    \/ ModalCancel
    \/ handleEmailModalSubmit
    \/ \E i \in 1..MaxCalls : AddDocOk(i)
    \/ \E i \in 1..MaxCalls : AddDocFail(i)
    \/ \E i \in 1..MaxCalls : FetchOk(i)
    \/ \E i \in 1..MaxCalls : TextOk(i)
    \/ \E i \in 1..MaxCalls : TextFail(i)
    \/ \E i \in 1..MaxCalls : \E how \in FetchFailures : FetchFail(i, how)

SpecModal == InitReady /\ [][NextModal]_vars

----------------------------------------------------------------------------
(* One filled-in form, submitted and confirmed, with every awaited call    *)
(* settling sooner or later: addDoc and fetch each return or throw,        *)
(* whatever the user does meanwhile.                                       *)

InitLive ==
    /\ InitReady
    /\ issueTitle = <<"b","u","g">>
    /\ steps = << [value |-> <<" ","a"," ">>] >>

Settle(i) ==
    \/ AddDocOk(i)
    \/ AddDocFail(i)
    \/ FetchOk(i)
    \/ \E how \in FetchFailures : FetchFail(i, how)
    \/ TextOk(i)
    \/ TextFail(i)

NextLive ==
    \/ handleSubmit
    \/ \E r \in RecipientInputs : SetRecipient(r)
    \/ ModalCancel
    \/ handleEmailModalSubmit
    \/ \E i \in 1..MaxCalls : Settle(i)

SpecLive ==
    /\ InitLive
    /\ [][NextLive]_vars
    /\ \A i \in 1..MaxCalls : WF_vars(Settle(i))

----------------------------------------------------------------------------
(* The step list alone: typing into the step inputs, growing the list from *)
(* the '+ Step' buttons and the Enter key, and the focus callbacks, from   *)
(* the form as first rendered.                                             *)

MaxGrown == 3      \* longest step list of this specification

NextSteps ==
    \/ \E i \in 1..MaxGrown : \E s \in WideSteps : SetStep(i, s)
    \/ Len(steps) < MaxGrown /\ addStep
    \/ \E shiftKey \in BOOLEAN :
          Len(steps) < MaxGrown /\ handleKeyPress("Enter", shiftKey)
    \/ focusNewStep

SpecSteps == Init /\ [][NextSteps]_vars

----------------------------------------------------------------------------
(* formatEmailBody alone, applied to any step list of a bounded length.    *)

FmtSteps ==
    { <<>>, <<"\f","U+00A0">>, <<" ","a"," ">>, <<"b">>, <<"a"," ","b">> }

FmtTitles == { <<"b","u","g">> }

InitFormat ==
    /\ InitComponent
    /\ fmtData \in [issueTitle : FmtTitles,
                    steps : {<<>>} \cup StepLists(FmtSteps, MaxFmtSteps)]
    /\ fmtBody = NoFmtBody

Format ==
    /\ ~fmtBody.ran
    /\ fmtBody' = [ran |-> TRUE, body |-> formatEmailBody(fmtData)]
    /\ UNCHANGED <<formVars, errors, isSubmitted, modalVars, stagedAt, calls,
                   store, outbox, ev, timers, fmtData>>

NextFormat == Format

SpecFormat == InitFormat /\ [][NextFormat]_vars

----------------------------------------------------------------------------
(* Vocabulary of the properties, stated without the handlers' helpers. *)

SubmitEvents == {"submitInvalid", "submitNoSteps", "submitStaged"}

IsBlank(s) == \A k \in 1..Len(s) : s[k] \in WhiteSpace

AllBlank(list) == \A i \in 1..Len(list) : IsBlank(list[i].value)

\* the text between the first and the last non-whitespace character
Stripped(s) ==
    IF IsBlank(s) THEN <<>>
    ELSE LET inked == {k \in 1..Len(s) : s[k] \notin WhiteSpace}
             first == CHOOSE k \in inked : \A m \in inked : k <= m
             last  == CHOOSE k \in inked : \A m \in inked : k >= m
         IN  SubSeq(s, first, last)

\* the numbered lines of a step list: blank entries skipped, the others
\* stripped and numbered k, k+1, ... in input order
RECURSIVE NumberedFrom(_, _)
NumberedFrom(list, k) ==
    IF list = <<>> THEN <<>>
    ELSE IF IsBlank(Head(list).value) THEN NumberedFrom(Tail(list), k)
    ELSE Dec(k) \o <<".", " ">> \o Stripped(Head(list).value) \o <<"\n">>
             \o NumberedFrom(Tail(list), k + 1)

ExampleSteps ==
    << [value |-> <<>>], [value |-> <<" ","a"," ">>], [value |-> <<"b">>],
       [value |-> <<>>] >>

ExampleLines == <<"1", ".", " ", "a", "\n", "2", ".", " ", "b", "\n">>

\* s reads local-part@domain.tld: one '@' with a non-empty local part before
\* it, and after it a non-empty domain, a last '.', and two or more letters
HasShape(s) ==
    LET ats  == {k \in 1..Len(s) : s[k] = "@"}
        dots == {k \in 1..Len(s) : s[k] = "."}
    IN  /\ Cardinality(ats) = 1
        /\ LET at == CHOOSE k \in ats : TRUE
               after == {k \in dots : k > at}
           IN  /\ at > 1
               /\ \A k \in 1..(at - 1) : s[k] \in LocalClass
               /\ after # {}
               /\ LET dot == CHOOSE k \in after : \A m \in after : k >= m
                  IN  /\ dot > at + 1
                      /\ \A k \in (at + 1)..(dot - 1) : s[k] \in DomainClass
                      /\ Len(s) >= dot + 2
                      /\ \A k \in (dot + 1)..Len(s) : s[k] \in Letters

InFlight(c) == c.addDoc = "pending" \/ c.fetch \in {"pending", "reading"}

SendFailures == FetchFailures \cup {"textRejected"}

DocsOfRun(i) == {k \in 1..Len(store) : store[k].call = i}

DocsOfStage(s) ==
    {k \in 1..Len(store) : calls[store[k].call].stage = s}

NoExternalCall == UNCHANGED <<calls, store, outbox>>

RootError == [type |-> "manual", message |-> RootMsg]
StepsError == [type |-> "manual", message |-> StepsMsg]

----------------------------------------------------------------------------
(* C1 *)

\* C1, as claimed: whenever the form is submitted with every step entry
\* empty or whitespace-only, the 'steps' error is set, the modal state and
\* the staged data stay as they were, and no external call is made.
C1_AsClaimed ==
    [][(ev' \in SubmitEvents /\ AllBlank(steps))
         => /\ errors'["steps"] = StepsError
            /\ UNCHANGED modalVars
            /\ NoExternalCall]_vars

\* C1, amended: a submit with every step entry empty or whitespace-only
\* never opens the modal, stages nothing and makes no external call; the
\* list-level 'steps' error is set whenever the title and the sender email
\* pass their own field rules (otherwise only the field errors are set).
C1_BlankStepsBlocked ==
    [][(ev' \in SubmitEvents /\ AllBlank(steps))
         => /\ ev' # "submitStaged"
            /\ UNCHANGED modalVars
            /\ NoExternalCall
            /\ (Len(issueTitle) >= 3 /\ HasShape(senderEmail))
                  => errors'["steps"] = StepsError]_vars

C1_Witness ==
    /\ ev = "submitNoSteps"
    /\ AllBlank(steps)
    /\ \E i \in 1..Len(steps) : steps[i].value # <<>>
    /\ errors["steps"] = StepsError
    /\ ~showEmailModal
    /\ pendingFormData = Null

----------------------------------------------------------------------------
(* C2 *)

\* C2: in every reachable state, a run whose notification call has been
\* started has its persistence write completed successfully, with its
\* document in the store.
C2_NotifyAfterPersist ==
    \A i \in 1..Len(calls) :
        calls[i].fetch # "none"
            => (calls[i].addDoc = "ok" /\ DocsOfRun(i) # {})

C2_Witness ==
    \E i, j \in 1..Len(calls) :
        /\ calls[i].fetch = "pending"
        /\ calls[j].addDoc \in {"pending", "failed"}
        /\ calls[j].fetch = "none"

----------------------------------------------------------------------------
(* C3 *)

\* C3: when a run's notification call fails (the request rejected or
\* answered outside 2xx, or the reading of the response rejected) no
\* further call is started, the store is left as it was, still
\* holding the document that run wrote, and the root-level failure message
\* is set.
C3_NotifyFailKeepsRecord ==
    [][\A i \in 1..Len(calls) :
          (calls[i].fetch \in {"pending", "reading"}
             /\ calls'[i].fetch = "failed")
             => /\ ev' \in SendFailures
                /\ Len(calls') = Len(calls)
                /\ store' = store
                /\ \E k \in 1..Len(store') :
                      /\ store'[k].call = i
                      /\ store'[k].data = calls[i].issueData
                /\ errors'["root"] = RootError]_vars

C3_Witness ==
    /\ ev = "fetchNon2xx"
    /\ errors["root"] = RootError
    /\ \E i \in 1..Len(calls) :
          /\ calls[i].addDoc = "ok"
          /\ calls[i].fetch = "failed"
          /\ \E k \in 1..Len(store) : store[k].call = i

----------------------------------------------------------------------------
(* C4 *)

\* C4: Cancel in the open modal closes it, empties the recipient email and
\* drops the staged data, leaves title, sender email and steps as they
\* were, and makes no external call.
C4_CancelFrame ==
    [][ev' = "cancel"
         => /\ showEmailModal
            /\ ~showEmailModal'
            /\ recipientEmail' = <<>>
            /\ pendingFormData' = Null
            /\ UNCHANGED formVars
            /\ NoExternalCall]_vars

C4_Witness ==
    /\ ev = "cancel"
    /\ calls = <<>>
    /\ ~showEmailModal
    /\ recipientEmail = <<>>
    /\ pendingFormData = Null
    /\ Len(issueTitle) >= 3
    /\ senderEmail # <<>>
    /\ ~AllBlank(steps)

----------------------------------------------------------------------------
(* C5 *)

\* C5: when the persistence write or the notification call fails, the
\* root-level error message is set and title, sender email and steps keep
\* the values they had.
C5_FailureKeepsForm ==
    [][ev' \in ({"addDocFail"} \cup SendFailures)
         => /\ errors'["root"] = RootError
            /\ UNCHANGED formVars]_vars

C5_Witness ==
    /\ ev = "addDocFail"
    /\ errors["root"] = RootError
    /\ Len(issueTitle) >= 3
    /\ senderEmail # <<>>
    /\ ~AllBlank(steps)
    /\ \E i \in 1..Len(calls) : calls[i].addDoc = "failed"

----------------------------------------------------------------------------
(* C6 *)

\* C6: right after a notification call succeeds, title and sender email
\* are empty, the step list is one empty entry, the modal is closed, the
\* recipient email is empty and the staged data is null.
C6_SuccessResets ==
    ev = "textOk"
        => /\ issueTitle = <<>>
           /\ senderEmail = <<>>
           /\ steps = << [value |-> <<>>] >>
           /\ ~showEmailModal
           /\ recipientEmail = <<>>
           /\ pendingFormData = Null

C6_Witness ==
    /\ ev = "textOk"
    /\ \E i \in 1..Len(calls) : calls[i].fetch = "ok"
    /\ Len(outbox) = 1
    /\ issueTitle = <<>>
    /\ ~showEmailModal

----------------------------------------------------------------------------
(* C7 *)

\* C7, as claimed: at most one external call is in flight at any time, and
\* the store holds at most one document per staged submission.
C7_AsClaimed ==
    /\ Cardinality({i \in 1..Len(calls) : InFlight(calls[i])}) <= 1
    /\ \A s \in 0..MaxCalls : Cardinality(DocsOfStage(s)) <= 1

----------------------------------------------------------------------------
(* C8 *)

\* C8: the body formatEmailBody returns is the header followed by one line
\* per entry that is non-blank, in input order, the k-th being 'k. ' and the
\* stripped entry and a newline, k counting from 1; for the steps
\* ["", " a ", "b", ""] those lines are exactly '1. a\n2. b\n'.
C8_NumberedSteps ==
    fmtBody.ran
        => /\ fmtBody.body = BodyHeader(fmtData.issueTitle)
                                \o NumberedFrom(fmtData.steps, 1)
           /\ fmtData.steps = ExampleSteps
                 => fmtBody.body = BodyHeader(fmtData.issueTitle)
                                      \o ExampleLines

C8_Witness ==
    /\ fmtBody.ran
    /\ fmtData.steps = ExampleSteps
    /\ fmtBody.body = BodyHeader(fmtData.issueTitle) \o ExampleLines

----------------------------------------------------------------------------
(* C9 *)

\* C9, as claimed: a submit with a title shorter than 3 characters, the
\* empty title included, sets the title-length error, leaves modal and
\* staged data as they were, and makes no external call.
C9_AsClaimed ==
    [][(ev' \in SubmitEvents /\ Len(issueTitle) < 3)
         => /\ errors'["issueTitle"]
                  = [type |-> "minLength", message |-> TitleMinLengthMsg]
            /\ UNCHANGED modalVars
            /\ NoExternalCall]_vars

\* C9, amended: a submit with a title shorter than 3 characters leaves
\* modal and staged data as they were and makes no external call; the error
\* set on the title is the title-length error for a title of 1 or 2
\* characters and the 'required' error for the empty title.
C9_ShortTitleBlocked ==
    [][(ev' \in SubmitEvents /\ Len(issueTitle) < 3)
         => /\ errors'["issueTitle"]
                  = IF Len(issueTitle) = 0
                    THEN [type |-> "required", message |-> TitleRequiredMsg]
                    ELSE [type |-> "minLength", message |-> TitleMinLengthMsg]
            /\ UNCHANGED modalVars
            /\ NoExternalCall]_vars

C9_Witness ==
    /\ ev = "submitInvalid"
    /\ Len(issueTitle) = 2
    /\ errors["issueTitle"].type = "minLength"
    /\ HasShape(senderEmail)
    /\ ~AllBlank(steps)
    /\ ~showEmailModal
    /\ pendingFormData = Null

----------------------------------------------------------------------------
(* C10 *)

\* C10, as claimed: a submit with a sender email that does not read
\* local-part@domain.tld sets the email-format error, leaves modal and
\* staged data as they were, and makes no external call.
C10_AsClaimed ==
    [][(ev' \in SubmitEvents /\ ~HasShape(senderEmail))
         => /\ errors'["senderEmail"]
                  = [type |-> "pattern", message |-> EmailPatternMsg]
            /\ UNCHANGED modalVars
            /\ NoExternalCall]_vars

\* C10, amended: a submit with a sender email that does not read
\* local-part@domain.tld leaves modal and staged data as they were and
\* makes no external call; the error set on the sender email is the
\* email-format error for a non-empty string and the 'required' error for
\* the empty one.
C10_BadEmailBlocked ==
    [][(ev' \in SubmitEvents /\ ~HasShape(senderEmail))
         => /\ errors'["senderEmail"]
                  = IF senderEmail = <<>>
                    THEN [type |-> "required", message |-> EmailRequiredMsg]
                    ELSE [type |-> "pattern", message |-> EmailPatternMsg]
            /\ UNCHANGED modalVars
            /\ NoExternalCall]_vars

C10_Witness ==
    /\ ev = "submitInvalid"
    /\ senderEmail = <<"a","@","b",".","c">>
    /\ errors["senderEmail"].type = "pattern"
    /\ Len(issueTitle) >= 3
    /\ ~AllBlank(steps)
    /\ ~showEmailModal
    /\ pendingFormData = Null

----------------------------------------------------------------------------
(* C11 *)

\* C11: every append, from a '+ Step' button or from the Enter key, makes
\* the step list one entry longer; the added entry is empty and is the last
\* one, the entries before it keep their values and positions, and the
\* focus callback the append schedules targets the index of the added
\* entry, also while callbacks of earlier appends are still pending.
C11_AppendOne ==
    [][ev' = "addStep"
         => /\ Len(steps') = Len(steps) + 1
            /\ steps'[Len(steps')] = [value |-> <<>>]
            /\ \A i \in 1..Len(steps) : steps'[i] = steps[i]
            /\ Len(timers') = Len(timers) + 1
            /\ \A k \in 1..Len(timers) : timers'[k] = timers[k]
            /\ timers'[Len(timers')] + 1 = Len(steps')]_vars

C11_Witness ==
    /\ ev = "addStep"
    /\ Len(steps) = 3
    /\ steps[1].value = <<"b">>
    /\ steps[2].value = <<" ", "a", " ">>
    /\ steps[3].value = <<>>
    /\ timers = <<1, 2>>

----------------------------------------------------------------------------
(* C13 *)

\* C13: Enter pressed in a step input without Shift appends exactly one
\* entry and nothing else: the form is not submitted, so no validation
\* runs, no error changes, nothing is staged, the modal state is untouched
\* and no external call is made.
C13_EnterAppendsOnly ==
    [][handleKeyPress("Enter", FALSE)
         => /\ Len(steps') = Len(steps) + 1
            /\ Len(timers') = Len(timers) + 1
            /\ ev' \notin SubmitEvents
            /\ UNCHANGED <<issueTitle, senderEmail, errors, isSubmitted,
                           modalVars, stagedAt>>
            /\ NoExternalCall]_vars

C13_Witness ==
    /\ ev = "addStep"
    /\ Len(steps) = 2
    /\ steps[1].value = <<"b">>
    /\ steps[2].value = <<>>
    /\ timers = <<1>>
    /\ ~isSubmitted
    /\ errors = NoErrors
    /\ ~showEmailModal

----------------------------------------------------------------------------
(* C12 *)

\* C12, as claimed: the step list always has at least one entry and no
\* transition makes it shorter.
C12_AsClaimed ==
    [][Len(steps) >= 1 /\ Len(steps') >= Len(steps)]_vars

\* C12: the step list always has at least one entry; the only transition
\* that makes it shorter is the reset after a successful notification, which
\* leaves the single empty entry of the defaults; every other transition
\* keeps the entries there are, in place, or appends one.
C12_ShrinksOnlyOnReset ==
    [][/\ Len(steps) >= 1
       /\ Len(steps') >= 1
       /\ ev' = "textOk" => steps' = << [value |-> <<>>] >>
       /\ ev' # "textOk" => Len(steps') \in {Len(steps), Len(steps) + 1}]_vars

C12_Witness ==
    /\ ev = "textOk"
    /\ Len(outbox) = 1
    /\ Len(calls[outbox[1].call].issueData.steps) = 2
    /\ Len(steps) = 1

----------------------------------------------------------------------------
(* C14 *)

ConfirmEvents == {"confirm", "confirmNoop", "confirmThrow"}

\* C14: a recipient confirmation while the recipient email is empty or
\* made of whitespace only changes nothing: the modal stays open, the
\* recipient and the staged data stay as they are, no error is set, and
\* no persistence or notification call is made.
C14_BlankRecipientNoop ==
    [][(ev' \in ConfirmEvents /\ IsBlank(recipientEmail))
         => /\ showEmailModal
            /\ showEmailModal'
            /\ UNCHANGED <<recipientEmail, pendingFormData, stagedAt>>
            /\ UNCHANGED <<formVars, errors, isSubmitted, timers>>
            /\ NoExternalCall]_vars

C14_Witness ==
    /\ ev = "confirmNoop"
    /\ showEmailModal
    /\ recipientEmail = <<"\r", "\t">>
    /\ pendingFormData # Null
    /\ errors = NoErrors
    /\ calls = <<>>

----------------------------------------------------------------------------
(* C15 *)

\* C15: when the persistence write fails, the run makes no notification
\* call, then or later, and the failure leaves the modal as it is: an open
\* modal stays open, and the recipient email and the staged data are kept.
C15_WriteFailureAborts ==
    [][/\ ev' = "addDocFail"
          => /\ UNCHANGED <<showEmailModal, recipientEmail, pendingFormData>>
             /\ UNCHANGED <<store, outbox>>
             /\ Len(calls') = Len(calls)
             /\ \A i \in 1..Len(calls) : calls'[i].fetch = calls[i].fetch
       /\ \A i \in 1..Len(calls') :
             calls'[i].addDoc = "failed" => calls'[i].fetch = "none"]_vars

C15_Witness ==
    /\ ev = "addDocFail"
    /\ Len(calls) = 1
    /\ calls[1].addDoc = "failed"
    /\ calls[1].fetch = "none"
    /\ showEmailModal
    /\ recipientEmail = calls[1].recipient
    /\ pendingFormData # Null
    /\ store = <<>>
    /\ outbox = <<>>

----------------------------------------------------------------------------
(* C16 *)

\* the entries of a step list that are not blank, stripped, in list order
RECURSIVE StrippedNonBlank(_)
StrippedNonBlank(list) ==
    IF list = <<>> THEN <<>>
    ELSE (IF IsBlank(Head(list).value) THEN <<>>
          ELSE << Stripped(Head(list).value) >>)
         \o StrippedNonBlank(Tail(list))

\* C16: the record a confirmation hands to the persistence write is built
\* from the staged data: its steps are the staged entries that are not
\* blank, stripped, in input order, at least one; title and sender email are
\* the staged ones, the recipient is the modal's recipient email, the status
\* is 'open'; and the document a successful write stores is that record.
C16_RecordFromStaged ==
    [][/\ ev' = "confirm"
          => LET record == calls'[Len(calls')].issueData
             IN  /\ Len(calls') = Len(calls) + 1
                 /\ calls'[Len(calls')].addDoc = "pending"
                 /\ record.steps = StrippedNonBlank(pendingFormData.steps)
                 /\ Len(record.steps) >= 1
                 /\ record.title = pendingFormData.issueTitle
                 /\ record.senderEmail = pendingFormData.senderEmail
                 /\ record.recipientEmail = recipientEmail
                 /\ record.status = "open"
       /\ ev' = "addDocOk"
          => /\ Len(store') = Len(store) + 1
             /\ LET doc == store'[Len(store')]
                IN  doc.data = calls[doc.call].issueData]_vars

C16_Witness ==
    /\ ev = "addDocOk"
    /\ Len(store) = 1
    /\ pendingFormData # Null
    /\ pendingFormData.steps = << [value |-> <<"\t", "\r">>],
                                  [value |-> <<" ", "a", " ">>] >>
    /\ store[1].data.steps = << <<"a">> >>
    /\ store[1].data.title = <<" ", " ", " ">>
    /\ store[1].data.recipientEmail = <<" ","r","@","x",".","i","o">>

----------------------------------------------------------------------------
(* C17 *)

FailureEvents == {"addDocFail"} \cup SendFailures

\* the run has ended: the notification went out, or one of its calls failed
Ended(c) == c.fetch = "ok" \/ c.addDoc = "failed" \/ c.fetch = "failed"

\* the form and the modal as the success path leaves them
ResetIdle ==
    /\ issueTitle = <<>>
    /\ senderEmail = <<>>
    /\ steps = << [value |-> <<>>] >>
    /\ ~showEmailModal
    /\ recipientEmail = <<>>
    /\ pendingFormData = Null

\* C17: with every external call returning or throwing sooner or later, a
\* run whose persistence write has started ends, whatever the user does
\* while its calls are pending, Cancel included; and the step that ends it
\* leaves either the reset form with the modal closed (the notification was
\* sent) or the root error set (a call failed).
C17_RunsToTheEnd ==
    /\ \A i \in 1..MaxCalls :
          (i <= Len(calls) /\ InFlight(calls[i]))
             ~> (i <= Len(calls) /\ Ended(calls[i]))
    /\ [][\A i \in 1..Len(calls) :
            (~Ended(calls[i]) /\ Ended(calls'[i]))
               => \/ calls'[i].fetch = "ok" /\ ev' = "textOk" /\ ResetIdle'
                  \/ /\ calls'[i].fetch # "ok"
                     /\ ev' \in FailureEvents
                     /\ errors'["root"] = RootError]_vars

C17_Witness ==
    /\ ev = "addDocFail"
    /\ Len(calls) = 1
    /\ Ended(calls[1])
    /\ ~showEmailModal
    /\ pendingFormData = Null
    /\ errors["root"] = RootError

----------------------------------------------------------------------------
(* C18 *)

Failed(c) == c.addDoc = "failed" \/ c.fetch = "failed"

\* C18: nothing is retried by the component itself. A persistence call
\* starts only in a recipient confirmation by the user, one per
\* confirmation; a notification call starts only when the same run's write
\* has just succeeded; a step in which a call fails ends that run, starts
\* no call and writes nothing, and a run that has failed never calls again.
C18_NoAutomaticRetry ==
    [][/\ Len(calls') \in {Len(calls), Len(calls) + 1}
       /\ Len(calls') > Len(calls) <=> ev' = "confirm"
       /\ \A i \in 1..Len(calls) :
             /\ Failed(calls[i]) => calls'[i] = calls[i]
             /\ calls'[i].addDoc = "pending" => calls[i].addDoc = "pending"
             /\ (calls'[i].fetch = "pending" /\ calls[i].fetch # "pending")
                   => calls[i].addDoc = "pending" /\ ev' = "addDocOk"
       /\ ev' \in FailureEvents
             => /\ \E i \in 1..Len(calls) :
                      /\ InFlight(calls[i])
                      /\ Failed(calls'[i])
                      /\ ~InFlight(calls'[i])
                /\ UNCHANGED <<store, outbox>>]_vars

C18_Witness ==
    /\ ev = "confirm"
    /\ Len(calls) = 2
    /\ calls[1].fetch = "failed"
    /\ calls[2].addDoc = "pending"
    /\ calls[2].stage = calls[1].stage
    /\ Len(store) = 1
    /\ outbox = <<>>

----------------------------------------------------------------------------
(* C19 *)

\* C19: the modal is open exactly when staged form data is present, the
\* recipient email is empty whenever the modal is closed, and no recipient
\* confirmation has found the staged data null.
C19_ModalIffStaged ==
    /\ showEmailModal <=> pendingFormData # Null
    /\ ~showEmailModal => recipientEmail = <<>>
    /\ ev # "confirmThrow"

C19_Witness ==
    /\ ev = "confirm"
    /\ showEmailModal
    /\ pendingFormData # Null
    /\ recipientEmail = <<"r","@","x",".","i","o">>
    /\ Len(calls) = 2
    /\ calls[1].fetch = "ok"

----------------------------------------------------------------------------
(* C20 *)

\* C20: the notifications sent never outnumber the documents written, and
\* each of them belongs to a run whose document is in the store; a run
\* writes at most one document, under an identifier no other document has;
\* and a document, once written, stays in the store as it was written.
C20_WrittenOnceAndKept ==
    [][/\ Len(outbox) <= Len(store)
       /\ Len(outbox') <= Len(store')
       /\ \A m \in 1..Len(outbox') :
             \E k \in 1..Len(store') : store'[k].call = outbox'[m].call
       /\ \A k, l \in 1..Len(store') :
             (store'[k].call = store'[l].call \/ store'[k].id = store'[l].id)
                => k = l
       /\ Len(store') >= Len(store)
       /\ \A k \in 1..Len(store) : store'[k] = store[k]]_vars

C20_Witness ==
    /\ Len(store) = 2
    /\ Len(outbox) = 1
    /\ outbox[1].call = 2
    /\ calls[1].fetch = "failed"
    /\ store[1].data = store[2].data

====
